---- MODULE Spec2Model ----
\* Model of states/_states/snap.py: the Salt state module "snap" with the
\* output normalizer _cleanup_stdout and the two state functions purged and
\* assert_all_removed.
\*
\* Text is modelled as a sequence of one-character strings, so that
\* splitting, stripping, prefix tests and containment are computed on
\* characters.  The fixed wording of a comment or of a command line is a
\* single element holding the whole literal (Lit).
EXTENDS Integers, Sequences, FiniteSets, TLC

VARIABLES raw, out1, out2, stage,
          pc, op, name, test, probe, cmd_output, stdout, stderr,
          verify_retcode, ret, cmds,
          snapd, installed, purgedOk, okAtStart, mutated

normVars == <<raw, out1, out2, stage>>
callVars ==
    <<pc, op, name, test, probe, cmd_output, stdout, stderr, verify_retcode, ret, cmds>>
hostVars == <<snapd, installed>>
histVars == <<purgedOk, okAtStart, mutated>>
vars == <<normVars, callVars, hostVars, histVars>>

-----------------------------------------------------------------------------
\* Bounds of the model.

\* longest arbitrary input of the normalizer
MaxLen == 5
\* most redraw frames in a generated progress display
MaxFrames == 2
\* widest padding between a frame's text and its spinner glyph
MaxPad == 2

-----------------------------------------------------------------------------
\* Text helpers.

Lit(s) == <<s>>

LF == "\n"
CR == "\r"

\* The line boundaries of str.splitlines that the model's alphabet can hold.
LineBreaks == {LF, CR, "\f"}

\* The characters str.rstrip() removes when called without an argument.
Whitespace == {" ", "\t"} \cup LineBreaks

\* The argument of l.rstrip('/-\\|').
SpinnerChars == {"/", "-", "\\", "|"}

StartsWith(s, p) == Len(s) >= Len(p) /\ SubSeq(s, 1, Len(p)) = p

Contains(s, p) ==
    \E i \in 0..(Len(s) - Len(p)) : SubSeq(s, i + 1, i + Len(p)) = p

\* str.splitlines(): "\r\n" is one boundary, every boundary ends a line (also
\* an empty one), and the text after the last boundary is a line only when it
\* is not empty.
RECURSIVE SplitFrom(_, _, _, _)
SplitFrom(s, i, cur, acc) ==
    IF i > Len(s)
    THEN IF cur = <<>> THEN acc ELSE Append(acc, cur)
    ELSE IF s[i] = CR /\ i < Len(s) /\ s[i + 1] = LF
         THEN SplitFrom(s, i + 2, <<>>, Append(acc, cur))
         ELSE IF s[i] \in LineBreaks
              THEN SplitFrom(s, i + 1, <<>>, Append(acc, cur))
              ELSE SplitFrom(s, i + 1, Append(cur, s[i]), acc)

SplitLines(s) == SplitFrom(s, 1, <<>>, <<>>)

\* str.rstrip(chars): drop the longest suffix made of characters of chars.
RStripChars(l, chars) ==
    LET keep == {k \in 1..Len(l) : l[k] \notin chars}
        last == IF keep = {} THEN 0
                ELSE CHOOSE k \in keep : \A j \in keep : j <= k
    IN  SubSeq(l, 1, last)

RStripSpinner(l) == RStripChars(l, SpinnerChars)

\* A variant that strips both ends, as l.strip() would.
RStripWhitespaceBothEnds(l) ==
    LET keep == {k \in 1..Len(l) : l[k] \notin Whitespace}
    IN  IF keep = {} THEN <<>>
        ELSE SubSeq(l, CHOOSE k \in keep : \A j \in keep : k <= j,
                       CHOOSE k \in keep : \A j \in keep : j <= k)

RStripWhitespace(l) == RStripChars(l, Whitespace)

\* [l.rstrip('/-\\|') for l in stdout_lines]
StripSpinners(lines) == [i \in 1..Len(lines) |-> RStripSpinner(lines[i])]

\* [l.rstrip() for l in stdout_lines]
StripWhitespace(lines) == [i \in 1..Len(lines) |-> RStripWhitespace(lines[i])]

\* [l for l, _ in groupby(lines)]: the first line of every run of equal lines.
RECURSIVE GroupByFrom(_, _, _)
GroupByFrom(lines, i, acc) ==
    IF i > Len(lines) THEN acc
    ELSE IF i > 1 /\ lines[i] = lines[i - 1]
         THEN GroupByFrom(lines, i + 1, acc)
         ELSE GroupByFrom(lines, i + 1, Append(acc, lines[i]))

GroupBy(lines) == GroupByFrom(lines, 1, <<>>)

\* sep.join(parts)
RECURSIVE Join(_, _)
Join(parts, sep) ==
    IF parts = <<>> THEN <<>>
    ELSE IF Len(parts) = 1 THEN parts[1]
         ELSE parts[1] \o sep \o Join(Tail(parts), sep)

\* _cleanup_stdout(raw_stdout)
CleanupStdout(raw_stdout) ==
    LET lines0 == SplitLines(raw_stdout)
        lines1 == StripSpinners(lines0)
        lines2 == StripWhitespace(lines1)
        lines3 == GroupBy(lines2)
    IN  Join(lines3, <<LF>>)

-----------------------------------------------------------------------------
\* Inputs of the normalizer.

Alphabet == {"a", "b", " ", "/", "-", LF, CR}

Strings(n) == UNION {[1..k -> Alphabet] : k \in 0..n}

Spaces(n) == [i \in 1..n |-> " "]

DocText ==
    <<"R", "e", "m", "o", "v", "i", "n", "g", " ", "s", "n", "a", "p", " ", "a", "b", "c">>

\* The example of the comment in _cleanup_stdout:
\* "\rRemoving snap abc     /\rRemoving snap abc     -"
DocExample ==
    <<CR>> \o DocText \o Spaces(5) \o <<"/">> \o <<CR>> \o DocText \o Spaces(5) \o <<"-">>

FrameTexts == {<<"a">>, <<"a", " ", "a">>, DocText}

\* One redraw of the progress line: carriage return, text, padding, glyph.
OneFrame(t) ==
    {<<CR>> \o t \o Spaces(p) \o <<g>> : p \in 0..MaxPad, g \in SpinnerChars}

RECURSIVE Concat(_)
Concat(ss) == IF ss = <<>> THEN <<>> ELSE ss[1] \o Concat(Tail(ss))

FrameInputs(t) ==
    UNION {{Concat(fs) : fs \in [1..k -> OneFrame(t)]} : k \in 1..MaxFrames}

NormInputs ==
    Strings(MaxLen) \cup {DocExample} \cup UNION {FrameInputs(t) : t \in FrameTexts}

-----------------------------------------------------------------------------
\* The normalizer applied to an input, and applied again to its own output.

NormInit ==
    /\ raw \in NormInputs
    /\ out1 = <<>>
    /\ out2 = <<>>
    /\ stage = "raw"

Normalize ==
    /\ stage = "raw"
    /\ out1' = CleanupStdout(raw)
    /\ stage' = "once"
    /\ UNCHANGED <<raw, out2>>

Renormalize ==
    /\ stage = "once"
    /\ out2' = CleanupStdout(out1)
    /\ stage' = "twice"
    /\ UNCHANGED <<raw, out1>>

-----------------------------------------------------------------------------
\* The state functions.

Foo == <<"f", "o", "o">>
Bar == <<"b", "a", "r">>

\* unit names a caller asks to purge
Names == {Foo, Bar}

\* the default name of assert_all_removed, and one a caller chose
AssertNames == {Lit("assert_all_removed"), Foo}

\* f'snap "{name}" is not installed'
NotInstalledMarker(n) ==
    <<"s", "n", "a", "p", " ", "\"">> \o n
    \o <<"\"", " ", "i", "s", " ", "n", "o", "t", " ", "i", "n", "s", "t", "a", "l", "l", "e", "d">>

\* "No snaps are installed"
NoSnapsPrefix ==
    <<"N", "o", " ", "s", "n", "a", "p", "s", " ", "a", "r", "e", " ",
      "i", "n", "s", "t", "a", "l", "l", "e", "d">>

EmptyChanges == [k \in {} |-> <<>>]

\* ret as purged and assert_all_removed create it
NewRet(n) ==
    [name |-> n, result |-> "None", changes |-> EmptyChanges, comment |-> <<>>]

\* A variant that stores the normalized stdout under both keys.
OutputChangesNoStderr(out, err) ==
    [k \in {"stdout", "stderr"} |-> out]

\* {"stdout": stdout, "stderr": stderr}
OutputChanges(out, err) ==
    [k \in {"stdout", "stderr"} |-> IF k = "stdout" THEN out ELSE err]

\* {"old": "installed", "new": "removed", "stdout": stdout, "stderr": stderr}
PurgedChanges(out, err) ==
    [k \in {"old", "new", "stdout", "stderr"} |->
        CASE k = "old" -> Lit("installed")
          [] k = "new" -> Lit("removed")
          [] k = "stdout" -> out
          [] k = "stderr" -> err]

\* A variant that looks at the test flag before it looks for snapd.
PurgedEntryTestFirst(present, t) ==
    IF t THEN "test"
    ELSE IF ~present THEN "no_snapd"
    ELSE "run"

\* The two checks that open purged, in their order.
PurgedEntry(present, t) ==
    IF ~present THEN "no_snapd"
    ELSE IF t THEN "test"
    ELSE "run"

\* A variant that looks at the return code before it looks at stderr.
RemoveOutcomeRetcodeFirst(n, out) ==
    IF out.retcode # 0 THEN "failed"
    ELSE IF out.stderr = NotInstalledMarker(n) THEN "already_removed"
    ELSE "verify"

\* A variant that verifies whatever the return code is.
RemoveOutcomeAlwaysVerify(n, out) ==
    IF out.stderr = NotInstalledMarker(n) THEN "already_removed"
    ELSE "verify"

\* What purged does with the result of "snap remove --purge".
RemoveOutcome(n, out) ==
    IF out.stderr = NotInstalledMarker(n) THEN "already_removed"
    ELSE IF out.retcode # 0 THEN "failed"
    ELSE "verify"

\* A variant with the comparison turned around.
IsStillInstalledInverted(rc) == rc # 0

\* is_still_installed
IsStillInstalled(rc) == rc = 0

\* A variant that looks at stderr before it looks at stdout.
AssertOutcomeStderrFirst(out) ==
    IF StartsWith(out.stderr, NoSnapsPrefix) THEN "none"
    ELSE IF out.stdout # <<>> THEN "installed"
    ELSE "error"

\* What assert_all_removed does with the result of "snap list".
AssertOutcome(out) ==
    IF out.stdout # <<>> THEN "installed"
    ELSE IF StartsWith(out.stderr, NoSnapsPrefix) THEN "none"
    ELSE "error"

NoOutput == [retcode |-> 0, stdout |-> <<>>, stderr |-> <<>>]

\* A call returns r: the record is set, and a successful purge is remembered.
Finish(r) ==
    /\ ret' = r
    /\ pc' = "done"
    /\ purgedOk' = IF op' = "purged" /\ r.result = "True"
                   THEN purgedOk \cup {r.name} ELSE purgedOk

\* purged(name) up to its first external command; present is the answer of
\* _snapd_is_installed() and t is __opts__["test"].
PurgedCall(n, t, present) ==
    /\ pc = "idle"
    /\ op' = "purged"
    /\ name' = n
    /\ test' = t
    /\ probe' = present
    /\ mutated' = FALSE
    /\ okAtStart' = (n \in purgedOk)
    /\ UNCHANGED <<cmd_output, stdout, stderr, verify_retcode>>
    /\ CASE PurgedEntry(present, t) = "no_snapd" ->
              /\ Finish([NewRet(n) EXCEPT
                    !.result = "True",
                    !.comment = Lit("Cannot purge snap \"") \o n
                                \o Lit("\" because snapd is not installed.")])
              /\ UNCHANGED cmds
         [] PurgedEntry(present, t) = "test" ->
              /\ Finish([NewRet(n) EXCEPT
                    !.result = "None",
                    !.comment = Lit("Test mode is not supported.")])
              /\ UNCHANGED cmds
         [] PurgedEntry(present, t) = "run" ->
              /\ ret' = NewRet(n)
              /\ cmds' = Append(cmds, Lit("snap remove --purge ") \o n)
              /\ pc' = "remove"
              /\ UNCHANGED purgedOk

\* cmd.run_all returns out for "snap remove --purge {name}".
RemoveReturns(out) ==
    /\ pc = "remove"
    /\ cmd_output' = out
    /\ UNCHANGED <<op, name, test, probe, verify_retcode>>
    /\ CASE RemoveOutcome(name, out) = "already_removed" ->
              /\ Finish([ret EXCEPT
                    !.result = "True",
                    !.comment = Lit("Snap \"") \o name \o Lit("\" is already removed.")])
              /\ UNCHANGED <<stdout, stderr, cmds>>
         [] RemoveOutcome(name, out) = "failed" ->
              /\ stdout' = CleanupStdout(out.stdout)
              /\ stderr' = out.stderr
              /\ Finish([ret EXCEPT
                    !.result = "False",
                    !.comment = Lit("Non-zero return code when purging snap \"")
                                \o name \o Lit("\"."),
                    !.changes = OutputChanges(stdout', stderr')])
              /\ UNCHANGED cmds
         [] RemoveOutcome(name, out) = "verify" ->
              /\ stdout' = CleanupStdout(out.stdout)
              /\ stderr' = out.stderr
              /\ cmds' = Append(cmds, Lit("snap list ") \o name)
              /\ pc' = "verify"
              /\ UNCHANGED <<ret, purgedOk>>

\* cmd.retcode returns rc for "snap list {name}".
VerifyReturns(rc) ==
    /\ pc = "verify"
    /\ verify_retcode' = rc
    /\ UNCHANGED <<op, name, test, probe, cmd_output, stdout, stderr, cmds>>
    /\ IF IsStillInstalled(rc)
       THEN Finish([ret EXCEPT
                !.result = "False",
                !.comment = Lit("Purging snap \"") \o name \o Lit("\" was unsuccessful."),
                !.changes = OutputChanges(stdout, stderr)])
       ELSE Finish([ret EXCEPT
                !.result = "True",
                !.comment = Lit("Snap \"") \o name \o Lit("\" was successfully purged."),
                !.changes = PurgedChanges(stdout, stderr)])

\* assert_all_removed(name) up to its external command.
AssertCall(n, present) ==
    /\ pc = "idle"
    /\ op' = "assert_all_removed"
    /\ name' = n
    /\ test' = FALSE
    /\ probe' = present
    /\ mutated' = FALSE
    /\ okAtStart' = FALSE
    /\ UNCHANGED <<cmd_output, stdout, stderr, verify_retcode>>
    /\ IF ~present
       THEN /\ Finish([NewRet(n) EXCEPT
                  !.result = "True",
                  !.comment = Lit("Cannot check for installed snaps because snapd is not installed. Assuming that all snaps are removed.")])
            /\ UNCHANGED cmds
       ELSE /\ ret' = NewRet(n)
            /\ cmds' = Append(cmds, Lit("snap list"))
            /\ pc' = "list"
            /\ UNCHANGED purgedOk

\* cmd.run_all returns out for "snap list".
ListReturns(out) ==
    /\ pc = "list"
    /\ cmd_output' = out
    /\ UNCHANGED <<op, name, test, probe, stdout, stderr, verify_retcode, cmds>>
    /\ CASE AssertOutcome(out) = "installed" ->
              Finish([ret EXCEPT
                  !.result = "False",
                  !.comment = Join(<<Lit("It seems like at least one snap is still installed."),
                                     Lit("Output:"),
                                     out.stdout,
                                     Lit("Errors:"),
                                     IF out.stderr # <<>> THEN out.stderr
                                     ELSE Lit("(no errors)")>>, <<LF>>)])
         [] AssertOutcome(out) = "none" ->
              Finish([ret EXCEPT
                  !.result = "True",
                  !.comment = Lit("No snaps are installed.")])
         [] AssertOutcome(out) = "error" ->
              Finish([ret EXCEPT
                  !.result = "False",
                  !.comment = Join(<<Lit("Listing all installed snaps failed due to error."),
                                     out.stderr>>, <<LF>>)])

\* The caller takes the record; the module keeps nothing between calls.
Return ==
    /\ pc = "done"
    /\ pc' = "idle"
    /\ op' = "none"
    /\ name' = <<>>
    /\ test' = FALSE
    /\ probe' = FALSE
    /\ cmd_output' = NoOutput
    /\ stdout' = <<>>
    /\ stderr' = <<>>
    /\ ret' = NewRet(<<>>)
    /\ verify_retcode' = -1
    /\ cmds' = <<>>
    /\ mutated' = FALSE
    /\ okAtStart' = FALSE
    /\ UNCHANGED purgedOk

-----------------------------------------------------------------------------
\* What the external commands may answer.

Retcodes == {0, 1}

ErrText ==
    <<"e", "r", "r", "o", "r", ":", " ", "a", "c", "c", "e", "s", "s", " ",
      "d", "e", "n", "i", "e", "d">>

\* captured progress display, plain lines, nothing
RemoveStdouts ==
    {<<>>,
     <<CR, "a", " ", "/", CR, "a", " ", "-">>,
     <<"a", LF, "b", LF>>}

\* stderr texts that are not the marker of n
OtherStderrs(n) ==
    {<<>>, ErrText, NotInstalledMarker(n) \o <<LF>>}
    \cup {NotInstalledMarker(m) : m \in Names \ {n}}

\* every result cmd.run_all may give for "snap remove --purge n"
RemoveOutputs(n) ==
    [retcode : Retcodes, stdout : RemoveStdouts,
     stderr : OtherStderrs(n) \cup {NotInstalledMarker(n)}]

ListTable ==
    <<"N", "a", "m", "e", LF, "f", "o", "o">>

NoSnapsFull ==
    NoSnapsPrefix \o
    <<" ", "y", "e", "t", ".", " ", "T", "r", "y", " ", "'", "s", "n", "a", "p", " ",
      "i", "n", "s", "t", "a", "l", "l", " ", "h", "e", "l", "l", "o", "-", "w", "o",
      "r", "l", "d", "'", ".">>

\* every result cmd.run_all may give for "snap list"
ListOutputs ==
    [retcode : Retcodes,
     stdout : {<<>>, <<" ">>, ListTable},
     stderr : {<<>>, NoSnapsPrefix, NoSnapsFull, <<" ">> \o NoSnapsPrefix, ErrText}]

-----------------------------------------------------------------------------
\* The state functions called one after another, the external commands
\* answering anything.

Idle ==
    /\ pc = "idle"
    /\ op = "none"
    /\ name = <<>>
    /\ test = FALSE
    /\ probe = FALSE
    /\ cmd_output = NoOutput
    /\ stdout = <<>>
    /\ stderr = <<>>
    /\ ret = NewRet(<<>>)
    /\ verify_retcode = -1
    /\ cmds = <<>>
    /\ mutated = FALSE
    /\ okAtStart = FALSE

NormUnused ==
    /\ raw = <<>>
    /\ out1 = <<>>
    /\ out2 = <<>>
    /\ stage = "unused"

Init ==
    /\ NormUnused
    /\ Idle
    /\ snapd \in BOOLEAN
    /\ installed \in SUBSET Names
    /\ purgedOk = {}

CallPurged ==
    /\ \E n \in Names, t \in BOOLEAN : PurgedCall(n, t, snapd)
    /\ UNCHANGED <<normVars, hostVars>>

CallAssert ==
    /\ \E n \in AssertNames : AssertCall(n, snapd)
    /\ UNCHANGED <<normVars, hostVars>>

RemoveAnswers ==
    /\ \E out \in RemoveOutputs(name) : RemoveReturns(out)
    /\ UNCHANGED <<normVars, hostVars, mutated, okAtStart>>

VerifyAnswers ==
    /\ \E rc \in Retcodes : VerifyReturns(rc)
    /\ UNCHANGED <<normVars, hostVars, mutated, okAtStart>>

ListAnswers ==
    /\ \E out \in ListOutputs : ListReturns(out)
    /\ UNCHANGED <<normVars, hostVars, mutated, okAtStart>>

Returns ==
    /\ Return
    /\ UNCHANGED <<normVars, hostVars>>

\* Anything else on the host installs or removes snapd and units.
HostChanges ==
    /\ snapd' \in BOOLEAN
    /\ installed' \in SUBSET Names
    /\ <<snapd', installed'>> # <<snapd, installed>>
    /\ purgedOk' = {}
    /\ okAtStart' = FALSE
    /\ UNCHANGED <<normVars, callVars, mutated>>

Next ==
    \/ CallPurged
    \/ CallAssert
    \/ RemoveAnswers
    \/ VerifyAnswers
    \/ ListAnswers
    \/ Returns
    \/ HostChanges

Spec == Init /\ [][Next]_vars

-----------------------------------------------------------------------------
\* The normalizer alone.

InitNorm ==
    /\ NormInit
    /\ Idle
    /\ snapd = FALSE
    /\ installed = {}
    /\ purgedOk = {}

NextNorm ==
    \/ Normalize /\ UNCHANGED <<callVars, hostVars, histVars>>
    \/ Renormalize /\ UNCHANGED <<callVars, hostVars, histVars>>

SpecNorm == InitNorm /\ [][NextNorm]_vars

-----------------------------------------------------------------------------
\* The state functions on a host whose snap commands tell the truth: a unit
\* that is not installed is reported with the marker, a unit that is
\* installed never is, and "snap list <name>" exits 0 exactly for an
\* installed unit.

\* "snap remove --purge n" on the host: its result and the units left.  For an
\* installed unit the exit code, the texts and whether the unit is gone are
\* all open; only the marker of n is excluded.
HostRemove(n) ==
    IF n \notin installed
    THEN {[out |-> [retcode |-> rc, stdout |-> so, stderr |-> NotInstalledMarker(n)],
           left |-> installed] : rc \in Retcodes, so \in RemoveStdouts}
    ELSE {[out |-> [retcode |-> rc, stdout |-> so, stderr |-> se], left |-> l] :
            rc \in Retcodes, so \in RemoveStdouts, se \in OtherStderrs(n),
            l \in {installed, installed \ {n}}}

\* "snap list n" on the host
HostListRetcode(n) == IF n \in installed THEN 0 ELSE 1

SnapRemove ==
    /\ pc = "remove"
    /\ \E o \in HostRemove(name) :
          /\ RemoveReturns(o.out)
          /\ installed' = o.left
          /\ mutated' = (mutated \/ o.left # installed)
    /\ UNCHANGED <<normVars, snapd, okAtStart>>

SnapListName ==
    /\ pc = "verify"
    /\ VerifyReturns(HostListRetcode(name))
    /\ UNCHANGED <<normVars, hostVars, mutated, okAtStart>>

\* Someone installs a unit: what earlier purges of it achieved is undone.
InstallUnit ==
    /\ snapd
    /\ \E n \in Names \ installed :
          /\ installed' = installed \cup {n}
          /\ purgedOk' = purgedOk \ {n}
          /\ okAtStart' = (okAtStart /\ name # n)
    /\ UNCHANGED <<normVars, callVars, snapd, mutated>>

InstallSnapd ==
    /\ ~snapd
    /\ snapd' = TRUE
    /\ purgedOk' = {}
    /\ okAtStart' = FALSE
    /\ UNCHANGED <<normVars, callVars, installed, mutated>>

RemoveSnapd ==
    /\ snapd
    /\ snapd' = FALSE
    /\ UNCHANGED <<normVars, callVars, installed, histVars>>

NextHost ==
    \/ CallPurged
    \/ CallAssert
    \/ SnapRemove
    \/ SnapListName
    \/ ListAnswers
    \/ Returns
    \/ InstallUnit
    \/ InstallSnapd
    \/ RemoveSnapd

SpecHost == Init /\ [][NextHost]_vars

-----------------------------------------------------------------------------
\* Properties of the normalizer (checked under SpecNorm).

\* C1: the normalizer is idempotent: normalizing its own output gives the
\* same output, for every input.
C1_Idempotent == stage = "twice" => out2 = out1

\* s.split(c): the pieces between the occurrences of c, empty ones included.
RECURSIVE PiecesFrom(_, _, _, _, _)
PiecesFrom(s, c, i, cur, acc) ==
    IF i > Len(s) THEN Append(acc, cur)
    ELSE IF s[i] = c THEN PiecesFrom(s, c, i + 1, <<>>, Append(acc, cur))
         ELSE PiecesFrom(s, c, i + 1, Append(cur, s[i]), acc)

\* p is the text t, then spaces, then one spinner glyph.
IsFrame(p, t) ==
    /\ Len(p) >= Len(t) + 1
    /\ SubSeq(p, 1, Len(t)) = t
    /\ p[Len(p)] \in SpinnerChars
    /\ \A j \in (Len(t) + 1)..(Len(p) - 1) : p[j] = " "

\* s begins with a carriage return and is made of frames of the text t.
IsFrames(s, t) ==
    LET ps == PiecesFrom(s, CR, 1, <<>>, <<>>)
    IN  /\ Len(ps) >= 2
        /\ ps[1] = <<>>
        /\ \A i \in 2..Len(ps) : IsFrame(ps[i], t)

\* C2: an input of carriage-return-separated frames of one text, each with
\* padding and a spinner glyph, is normalized to exactly that text.
C2_FramesGiveText ==
    \A t \in FrameTexts : (stage # "raw" /\ IsFrames(raw, t)) => out1 = t

\* The positions of s that survive trimming trailing whitespace line by line:
\* line boundaries, and every character with a non-whitespace character at
\* or after it on its line.
KeptPositions(s) ==
    {i \in 1..Len(s) :
        \/ s[i] \in LineBreaks
        \/ \E j \in i..Len(s) :
              /\ s[j] \notin Whitespace
              /\ \A k \in i..j : s[k] \notin LineBreaks}

RECURSIVE Pick(_, _, _)
Pick(s, keep, i) ==
    IF i > Len(s) THEN <<>>
    ELSE (IF i \in keep THEN <<s[i]>> ELSE <<>>) \o Pick(s, keep, i + 1)

\* s with the trailing whitespace of every line removed and all else kept.
TrimLines(s) == Pick(s, KeptPositions(s), 1)

DropFinalNewline(s) ==
    IF s # <<>> /\ s[Len(s)] = LF THEN SubSeq(s, 1, Len(s) - 1) ELSE s

OnlyNewlineBreaks(s) == \A i \in 1..Len(s) : s[i] \in LineBreaks => s[i] = LF

NoRepeat(lines) == \A i \in 2..Len(lines) : lines[i] # lines[i - 1]

\* C3 as stated: with no carriage return and no consecutive duplicate
\* lines, the output is the input with only the trailing whitespace of each
\* line removed (spinner glyphs and a final newline kept).
C3_AsStated ==
    (stage # "raw" /\ OnlyNewlineBreaks(raw) /\ NoRepeat(SplitLines(raw)))
        => out1 = TrimLines(raw)

NoLineEndsInSpinner(s) ==
    \A i \in 1..Len(s) :
        s[i] \in SpinnerChars => (i < Len(s) /\ s[i + 1] \notin LineBreaks)

TrimmedLines(s) == StripWhitespace(SplitLines(s))

\* C3 amended: with newline as the only line boundary, no line ending in a
\* spinner glyph and no two consecutive lines equal once trimmed, the output
\* is the input, less one final newline, with the trailing whitespace of
\* each line removed.
C3_TrimOnly ==
    (/\ stage # "raw"
     /\ OnlyNewlineBreaks(raw)
     /\ NoLineEndsInSpinner(raw)
     /\ NoRepeat(TrimmedLines(raw)))
        => out1 = TrimLines(DropFinalNewline(raw))

C3_Witness ==
    /\ stage = "once"
    /\ OnlyNewlineBreaks(raw)
    /\ NoLineEndsInSpinner(raw)
    /\ NoRepeat(TrimmedLines(raw))
    /\ Len(SplitLines(raw)) >= 2
    /\ TrimLines(raw) # raw
    /\ \E i \in 1..Len(raw) : raw[i] \in SpinnerChars
    /\ out1 = TrimLines(DropFinalNewline(raw))

-----------------------------------------------------------------------------
\* Properties of purged and assert_all_removed (checked under Spec).

RemoveCommand(n) == Lit("snap remove --purge ") \o n
VerifyCommand(n) == Lit("snap list ") \o n
ListCommand == Lit("snap list")

\* the removal command of the current purged call has returned
RemovalReturned == op = "purged" /\ pc \in {"verify", "done"} /\ cmds # <<>>

IsMarkerFor(err, n) ==
    err = <<"s", "n", "a", "p", " ", "\"">> \o n \o <<"\"">>
          \o <<" ", "i", "s", " ", "n", "o", "t", " ", "i", "n", "s", "t", "a", "l", "l", "e", "d">>

\* C4: when the removal command's stderr is exactly the not-installed marker
\* of the requested name, purged returns result True with empty changes,
\* whatever the exit code and stdout, and issues no verification query.
C4_MarkerMeansAlreadyRemoved ==
    (RemovalReturned /\ IsMarkerFor(cmd_output.stderr, name))
        => /\ pc = "done"
           /\ ret.result = "True"
           /\ ret.changes = EmptyChanges
           /\ cmds = <<RemoveCommand(name)>>

C4_Witness ==
    /\ RemovalReturned
    /\ IsMarkerFor(cmd_output.stderr, name)
    /\ cmd_output.retcode # 0
    /\ cmd_output.stdout # <<>>
    /\ ret.result = "True"

\* C5: when the removal command exits 0 without the marker, the verification
\* query decides: non-zero exit gives True with old/new, stdout and stderr in
\* changes; exit 0 gives False with stdout and stderr only.  No other outcome
\* of purged has old/new in changes.
C5_VerificationDecides ==
    (op = "purged" /\ pc = "done") =>
        /\ (/\ cmds # <<>>
            /\ cmd_output.retcode = 0
            /\ ~IsMarkerFor(cmd_output.stderr, name))
           => /\ cmds = <<RemoveCommand(name), VerifyCommand(name)>>
              /\ verify_retcode # 0 =>
                    /\ ret.result = "True"
                    /\ DOMAIN ret.changes = {"old", "new", "stdout", "stderr"}
                    /\ ret.changes["old"] = Lit("installed")
                    /\ ret.changes["new"] = Lit("removed")
              /\ verify_retcode = 0 =>
                    /\ ret.result = "False"
                    /\ DOMAIN ret.changes = {"stdout", "stderr"}
              /\ ret.changes["stdout"] = CleanupStdout(cmd_output.stdout)
              /\ ret.changes["stderr"] = cmd_output.stderr
        /\ ({"old", "new"} \cap DOMAIN ret.changes # {})
           => /\ cmds = <<RemoveCommand(name), VerifyCommand(name)>>
              /\ cmd_output.retcode = 0
              /\ ~IsMarkerFor(cmd_output.stderr, name)
              /\ verify_retcode # 0

C5_Witness ==
    /\ op = "purged"
    /\ pc = "done"
    /\ cmd_output.retcode = 0
    /\ verify_retcode # 0
    /\ cmd_output.stdout # <<>>
    /\ "old" \in DOMAIN ret.changes

\* the record shows the whole text err, in changes or in the comment
Surfaced(err) ==
    \/ Contains(ret.comment, err)
    \/ \E k \in DOMAIN ret.changes : ret.changes[k] = err

\* the command of the current call gave a stderr that no pattern matches
UnexpectedStderr ==
    \/ /\ RemovalReturned
       /\ pc = "done"
       /\ cmd_output.stderr # <<>>
       /\ ~IsMarkerFor(cmd_output.stderr, name)
    \/ /\ op = "assert_all_removed"
       /\ pc = "done"
       /\ cmds # <<>>
       /\ ~StartsWith(cmd_output.stderr, NoSnapsPrefix)

\* C6 as stated: a stderr that matches no known pattern always gives result
\* False with the stderr shown in the record.
C6_AsStated ==
    UnexpectedStderr => (ret.result = "False" /\ Surfaced(cmd_output.stderr))

VerifiedAbsent ==
    op = "purged" /\ Len(cmds) = 2 /\ cmd_output.retcode = 0 /\ verify_retcode # 0

\* C6 amended: a stderr that matches no known pattern is always shown in the
\* record, and the result is False except when the removal command exited 0
\* and the verification query found the unit absent, where it is True.
C6_UnexpectedStderrSurfaced ==
    UnexpectedStderr =>
        /\ Surfaced(cmd_output.stderr)
        /\ ret.result = IF VerifiedAbsent THEN "True" ELSE "False"

C6_Witness ==
    /\ UnexpectedStderr
    /\ op = "purged"
    /\ cmd_output.retcode # 0
    /\ cmd_output.stdout # <<>>
    /\ ret.result = "False"
    /\ ret.changes["stderr"] = cmd_output.stderr

\* C7: assert_all_removed returns True exactly when snapd is absent, or the
\* stdout of "snap list" is empty and its stderr starts with "No snaps are
\* installed"; otherwise False.  changes is always empty, and a non-empty
\* stdout is in the comment.
C7_AssertResult ==
    (op = "assert_all_removed" /\ pc = "done") =>
        /\ ret.changes = EmptyChanges
        /\ ret.result \in {"True", "False"}
        /\ ret.result = "True" <=>
              \/ ~probe
              \/ /\ cmd_output.stdout = <<>>
                 /\ StartsWith(cmd_output.stderr, NoSnapsPrefix)
        /\ (cmds # <<>> /\ cmd_output.stdout # <<>>)
              => Contains(ret.comment, cmd_output.stdout)

C7_Witness ==
    /\ op = "assert_all_removed"
    /\ pc = "done"
    /\ probe
    /\ cmd_output.stdout # <<>>
    /\ StartsWith(cmd_output.stderr, NoSnapsPrefix)
    /\ ret.result = "False"

\* C9: with snapd absent purged returns True with empty changes, for every
\* name and either value of the test flag; with snapd present and the test
\* flag set it returns None with empty changes and a comment.  Neither
\* issues an external command.
C9_EarlyReturns ==
    op = "purged" =>
        /\ (~probe \/ test) => (pc = "done" /\ cmds = <<>> /\ ret.changes = EmptyChanges)
        /\ ~probe => ret.result = "True"
        /\ (probe /\ test) => (ret.result = "None" /\ ret.comment # <<>>)

C9_Witness ==
    /\ op = "purged"
    /\ pc = "done"
    /\ ~probe
    /\ test
    /\ ret.result = "True"

IsPrefix(s, t) == Len(s) <= Len(t) /\ SubSeq(t, 1, Len(s)) = s

\* C10: the commands one call issues are a prefix of a fixed sequence of at
\* most two: removal then verification for purged, the verification only
\* after the removal returned exit code 0 without the marker; one "snap
\* list" for assert_all_removed.  Nothing is issued twice.
C10_CommandTrace ==
    /\ Len(cmds) <= 2
    /\ op = "none" => cmds = <<>>
    /\ op = "purged" =>
          /\ IsPrefix(cmds, <<RemoveCommand(name), VerifyCommand(name)>>)
          /\ pc = "remove" => Len(cmds) = 1
          /\ Len(cmds) = 2 =>
                /\ pc \in {"verify", "done"}
                /\ cmd_output.retcode = 0
                /\ ~IsMarkerFor(cmd_output.stderr, name)
    /\ op = "assert_all_removed" => IsPrefix(cmds, <<ListCommand>>)
    /\ \A i, j \in 1..Len(cmds) : cmds[i] = cmds[j] => i = j

C10_Witness ==
    /\ op = "purged"
    /\ pc = "done"
    /\ Len(cmds) = 2
    /\ ret.result = "False"

-----------------------------------------------------------------------------
\* Repeated purges on a host with truthful snap commands (checked under
\* SpecHost).

\* C8: once purged has returned True for a name, and nothing was installed
\* since, a later purged of that name with the test flag off returns True
\* with empty changes and leaves the host as it was.
C8_PurgeConverges ==
    (op = "purged" /\ pc = "done" /\ ~test /\ okAtStart)
        => /\ ret.result = "True"
           /\ ret.changes = EmptyChanges
           /\ ~mutated

C8_Witness ==
    /\ op = "purged"
    /\ pc = "done"
    /\ ~test
    /\ okAtStart
    /\ probe
    /\ cmds = <<RemoveCommand(name)>>
    /\ cmd_output.retcode # 0
    /\ ret.result = "True"

====
